---- MODULE Spec2Model ----
(***************************************************************************)
(* A model of django_mongodb_debug/panel.py: the MongoPanel query recorder *)
(* (record), its grouping and annotation pass (generate_stats), and the    *)
(* cursor instrumentation (wrap_cursor, the cursor mixins, enable/disable  *)
(* instrumentation).                                                       *)
(*                                                                         *)
(* Python values are modelled structurally.  A dict is a record or a       *)
(* sequence of entries in insertion order; a key that a dict does not hold *)
(* is a field the record does not have.  Colours of the host's             *)
(* contrasting_color_generator are modelled by their position in the       *)
(* generator's output (0, 1, 2, ...).  Floating point percentages are      *)
(* modelled in fixed point with Precision units per 1.0.                   *)
(*                                                                         *)
(* The display-only fields of a query (sql, params, template_info, form,   *)
(* is_select) are left out.  recordCalls, driverCalls, instrumented and    *)
(* lastCall observe the calls made; no modelled code reads them.           *)
(***************************************************************************)
EXTENDS Integers, Sequences, FiniteSets, TLC

VARIABLES
    queries,      \* panel -> MongoPanel._queries (list of query dicts)
    databases,    \* panel -> MongoPanel._databases (insertion-ordered dict)
    sql_time,     \* panel -> MongoPanel._sql_time
    stats,        \* panel -> <<>> or <<payload handed to record_stats>>
    recordCalls,  \* panel -> the kwargs of every record() call, in call order
    connection,   \* <<thread, alias>> -> the attributes of that DatabaseWrapper
    allow_sql,    \* request -> value of the allow_sql context variable
    mode,         \* request -> "sync" | "async" (how the host runs it)
    instrumented, \* request -> it is between its enable and its disable call
    driverCalls,  \* log of the query calls that reached the database driver
    lastCall      \* what the last instrumentation call was and did

vars == <<queries, databases, sql_time, stats, recordCalls, connection,
          allow_sql, mode, instrumented, driverCalls, lastCall>>

panelVars == <<queries, databases, sql_time, stats, recordCalls>>

(***************************************************************************)
(* Bounds of the model.                                                    *)
(***************************************************************************)
MaxQueries == 3
MaxCalls == 2
Precision == 1000

Requests == {"r1", "r2"}
Aliases == {"default", "replica"}
Threads == Requests \cup {"executor"}

Range(s) == {s[i] : i \in 1..Len(s)}

Min(a, b) == IF a < b THEN a ELSE b

RECURSIVE SumSeq(_)
SumSeq(s) == IF s = <<>> THEN 0 ELSE s[1] + SumSeq(Tail(s))

(***************************************************************************)
(* Python parameter values: None, a tuple or list of ints, a dict with     *)
(* string keys and int values.                                             *)
(***************************************************************************)
PyNone == [t |-> "None", v |-> <<>>]
PyTuple(elems) == [t |-> "tuple", v |-> elems]
PyList(elems) == [t |-> "list", v |-> elems]
PyDict(items) == [t |-> "dict", v |-> items]
Item(k, x) == [k |-> k, val |-> x]

\* Python's == on these values.
PyEqual(p, q) == p.t = q.t /\ p.v = q.v

\* repr() of the elements of tuple(raw_params): a dict iterates over its keys.
TupleElemReprs(p) ==
    IF p.t = "dict"
    THEN [i \in 1..Len(p.v) |-> "'" \o p.v[i].k \o "'"]
    ELSE [i \in 1..Len(p.v) |-> ToString(p.v[i])]

RECURSIVE JoinComma(_)
JoinComma(s) ==
    IF s = <<>> THEN ""
    ELSE IF Len(s) = 1 THEN s[1]
    ELSE s[1] \o ", " \o JoinComma(Tail(s))

\* repr(()) = "()", repr((1,)) = "(1,)", repr((1, 2)) = "(1, 2)".
ReprTuple(elemReprs) ==
    IF Len(elemReprs) = 1 THEN "(" \o elemReprs[1] \o ",)"
    ELSE "(" \o JoinComma(elemReprs) \o ")"

_similar_query_key(query) == query.raw_sql

_duplicate_query_key(query) ==
    LET raw_params == IF query.raw_params.t = "None" THEN <<>>
                      ELSE TupleElemReprs(query.raw_params)
    IN  <<query.raw_sql, ReprTuple(raw_params)>>

(***************************************************************************)
(* MongoPanel.record                                                       *)
(***************************************************************************)
AliasIndex(dbs, alias) ==
    IF \E i \in 1..Len(dbs) : dbs[i].alias = alias
    THEN CHOOSE i \in 1..Len(dbs) : dbs[i].alias = alias
    ELSE 0

DbAliases(dbs) == {dbs[i].alias : i \in 1..Len(dbs)}

\* record with "=" for "+=" on time_spent.
RecordDatabasesAssign(dbs, kwargs) ==
    LET i == AliasIndex(dbs, kwargs.alias)
    IN  IF i = 0
        THEN Append(dbs, [alias |-> kwargs.alias,
                          time_spent |-> kwargs.duration,
                          num_queries |-> 1])
        ELSE [dbs EXCEPT ![i] =
                 [@ EXCEPT !.time_spent = kwargs.duration,
                           !.num_queries = @ + 1]]

RecordDatabases(dbs, kwargs) ==
    LET i == AliasIndex(dbs, kwargs.alias)
    IN  IF i = 0
        THEN Append(dbs, [alias |-> kwargs.alias,
                          time_spent |-> kwargs.duration,
                          num_queries |-> 1])
        ELSE [dbs EXCEPT ![i] =
                 [@ EXCEPT !.time_spent = @ + kwargs.duration,
                           !.num_queries = @ + 1]]

PanelState(p) ==
    [queries |-> queries[p], databases |-> databases[p], sql_time |-> sql_time[p]]

\* The panel's three fields after record(**kwargs).
RecordOp(panel, kwargs) ==
    [queries |-> Append(panel.queries, kwargs),
     databases |-> RecordDatabases(panel.databases, kwargs),
     sql_time |-> panel.sql_time + kwargs.duration]

Kwargs(alias, raw_sql, raw_params, duration, stacktrace) ==
    [vendor |-> "mongodb", alias |-> alias, raw_sql |-> raw_sql,
     raw_params |-> raw_params, duration |-> duration,
     stacktrace |-> stacktrace]

\* A direct call of panel.record(**kwargs).
Record(p, kwargs) ==
    /\ Len(queries[p]) < MaxQueries
    /\ LET after == RecordOp(PanelState(p), kwargs)
       IN  /\ queries' = [queries EXCEPT ![p] = after.queries]
           /\ databases' = [databases EXCEPT ![p] = after.databases]
           /\ sql_time' = [sql_time EXCEPT ![p] = after.sql_time]
    /\ recordCalls' = [recordCalls EXCEPT ![p] = Append(@, kwargs)]
    /\ UNCHANGED <<stats, connection, allow_sql, mode, instrumented, driverCalls, lastCall>>

(***************************************************************************)
(* MongoPanel.generate_stats                                               *)
(***************************************************************************)
SqlWarningThreshold == 25

\* int(256.0 / (len(self._databases) * 2.5))
Factor(n) == 512 \div (5 * n)

RECURSIVE RampLoop(_, _, _, _)
RampLoop(rgb, color, nn, factor) ==
    IF rgb[color] < factor
    THEN LET nc == Min(256 - rgb[color], 256)
             rgb1 == [rgb EXCEPT ![color] = @ + nc]
             nn1 == IF nn + 1 > 2 THEN 0 ELSE nn + 1
         IN  RampLoop([rgb1 EXCEPT ![nn1] = nc], color, nn1, factor)
    ELSE rgb

\* The rgb_color of the n-th database (n from 0) out of count.
RgbColor(n, count) ==
    LET factor == Factor(count)
        color == n % 3
        rgb == [c \in 0..2 |-> IF c = color THEN 256 - (n \div 3) * factor ELSE 0]
    IN  RampLoop(rgb, color, color, factor)

\* The share without the "* 100".
WidthRatioFraction(duration, total) ==
    IF total = 0 THEN 0 ELSE (duration * Precision) \div total

\* (query["duration"] / self._sql_time) * 100, 0 on ZeroDivisionError: the
\* quotient is rounded to a multiple of 1/Precision, then multiplied.

WidthRatio(duration, total) ==
    IF total = 0 THEN 0 ELSE ((duration * Precision) \div total) * 100

\* The defaultdict(list) built by appending each query under its key: the
\* groups in order of first appearance, each with its members' positions.
QueryGroups(keys) ==
    LET idx == [i \in 1..Len(keys) |-> i]
        IsFirst(i) == \A j \in 1..(i - 1) : keys[j] # keys[i]
        firsts == SelectSeq(idx, IsFirst)
    IN  [g \in 1..Len(firsts) |->
            LET Same(i) == keys[i] = keys[firsts[g]]
            IN  [key |-> keys[firsts[g]], members |-> SelectSeq(idx, Same)]]

SimilarGroups(qs) ==
    QueryGroups([i \in 1..Len(qs) |-> <<qs[i].alias, _similar_query_key(qs[i])>>])

DuplicateGroups(qs) ==
    QueryGroups([i \in 1..Len(qs) |-> <<qs[i].alias, _duplicate_query_key(qs[i])>>])

\* "count > 0" for "count > 1".
GroupIsAnnotatedFromOne(count) == count > 0

\* Queries are similar / duplicates only if there are at least 2 of them.
GroupIsAnnotated(count) == count > 1

\* _process_query_groups: colors is the position of the shared colour
\* generator on entry.
ProcessQueryGroups(groups, qs, dbs, colors, name) ==
    LET Annotated(g) == GroupIsAnnotated(Len(groups[g].members))
        ColorOf(g) == colors + Cardinality({h \in 1..(g - 1) : Annotated(h)})
        GroupOf(i) == CHOOSE g \in 1..Len(groups) : i \in Range(groups[g].members)
        Counts(alias) ==
            SumSeq([g \in 1..Len(groups) |->
                      IF Annotated(g) /\ groups[g].key[1] = alias
                      THEN Len(groups[g].members) ELSE 0])
    IN  [queries |->
            [i \in 1..Len(qs) |->
                IF Annotated(GroupOf(i))
                THEN ((name \o "_count") :> Len(groups[GroupOf(i)].members))
                     @@ ((name \o "_color") :> ColorOf(GroupOf(i)))
                     @@ qs[i]
                ELSE qs[i]],
         databases |->
            [d \in 1..Len(dbs) |->
                ((name \o "_count") :> Counts(dbs[d].alias)) @@ dbs[d]],
         colors |-> colors + Cardinality({g \in 1..Len(groups) : Annotated(g)})]

\* trace_colors = defaultdict(lambda: next(colors)): the colour of a stack
\* trace is the number of distinct stack traces seen before its first use.
TraceColor(qs, i) ==
    LET first == CHOOSE j \in 1..i :
                    /\ qs[j].stacktrace = qs[i].stacktrace
                    /\ \A k \in 1..(j - 1) : qs[k].stacktrace # qs[i].stacktrace
    IN  Cardinality({qs[k].stacktrace : k \in 1..(first - 1)})

\* The per-query loop of generate_stats.
AnnotateQueries(qs, dbs, total) ==
    LET Width(i) == WidthRatio(qs[i].duration, total)
        Start(i) == SumSeq([j \in 1..(i - 1) |-> Width(j)])
    IN  [i \in 1..Len(qs) |->
            [is_slow |-> qs[i].duration > SqlWarningThreshold,
             rgb_color |-> dbs[AliasIndex(dbs, qs[i].alias)].rgb_color,
             width_ratio |-> Width(i),
             start_offset |-> Start(i),
             end_offset |-> Width(i) + Start(i),
             trace_color |-> TraceColor(qs, i)]
            @@ qs[i]]

RECURSIVE InsertByTimeSpent(_, _)
InsertByTimeSpent(sorted, db) ==
    IF sorted = <<>> THEN <<db>>
    ELSE IF db.time_spent > sorted[1].time_spent THEN <<db>> \o sorted
    ELSE <<sorted[1]>> \o InsertByTimeSpent(Tail(sorted), db)

\* sorted(self._databases.items(), key=lambda x: -x[1]["time_spent"]), stable.
RECURSIVE SortedByTimeSpent(_)
SortedByTimeSpent(dbs) ==
    IF dbs = <<>> THEN <<>>
    ELSE InsertByTimeSpent(SortedByTimeSpent(SubSeq(dbs, 1, Len(dbs) - 1)),
                           dbs[Len(dbs)])

GenerateStatsOp(qs, dbs, total) ==
    LET dbs1 == IF qs = <<>> THEN dbs
                ELSE [d \in 1..Len(dbs) |->
                        ("rgb_color" :> RgbColor(d - 1, Len(dbs))) @@ dbs[d]]
        qs1 == IF qs = <<>> THEN qs ELSE AnnotateQueries(qs, dbs1, total)
        sim == ProcessQueryGroups(SimilarGroups(qs), qs1, dbs1, 0, "similar")
        dup == ProcessQueryGroups(DuplicateGroups(qs), sim.queries,
                                  sim.databases, sim.colors, "duplicate")
    IN  [queries |-> dup.queries,
         databases |-> dup.databases,
         stats |-> [databases |-> SortedByTimeSpent(dup.databases),
                    sql_time |-> total]]

GenerateStats(p) ==
    LET out == GenerateStatsOp(queries[p], databases[p], sql_time[p])
    IN  /\ queries' = [queries EXCEPT ![p] = out.queries]
        /\ databases' = [databases EXCEPT ![p] = out.databases]
        /\ stats' = [stats EXCEPT ![p] = <<out.stats>>]
        /\ UNCHANGED <<sql_time, recordCalls, connection, allow_sql, mode,
                       instrumented, driverCalls, lastCall>>

(***************************************************************************)
(* Cursor instrumentation.                                                 *)
(*                                                                         *)
(* A DatabaseWrapper is modelled by the attributes the module touches:     *)
(* cursor and chunked_cursor ("original": the wrapper's own method,        *)
(* "djdt": the closure wrap_cursor installs, "failure": the test harness's *)
(* _DatabaseFailure), the saved _djdt_cursor and _djdt_chunked_cursor      *)
(* ("absent" while the attribute does not exist) and _djdt_logger          *)
(* ("absent", "None" or a panel).                                          *)
(*                                                                         *)
(* A cursor object is modelled by the mixins of its class in method        *)
(* resolution order (<<>> for the driver's plain cursor wrapper) and the   *)
(* logger it was built with; err names the exception raised instead of     *)
(* returning a cursor.                                                     *)
(***************************************************************************)
RawCursor == [err |-> "none", mixins |-> <<>>, logger |-> "None"]
CursorError(e) == [err |-> e, mixins |-> <<>>, logger |-> "None"]

\* patch_cursor_wrapper_with_mixin(cursor.__class__, mixin)(cursor.cursor,
\* connection, logger): class DjDTCursorWrapper(mixin, base_wrapper) has no
\* consistent method resolution order when base_wrapper already derives from
\* mixin, and Python raises TypeError.
PatchCursorWrapperWithMixin(cursor, mixin, logger) ==
    IF mixin \in Range(cursor.mixins)
    THEN CursorError("TypeError")
    ELSE [err |-> "none", mixins |-> <<mixin>> \o cursor.mixins, logger |-> logger]

Mixin(allow) == IF allow THEN "Normal" ELSE "Exception"

\* The closure cursor() of wrap_cursor.  A saved factory that is the closure
\* itself never returns (RecursionError).
DjdtCursor(conn, allow) ==
    LET logger == conn.djdt_logger
        cursor == CASE conn.djdt_cursor = "original" -> RawCursor
                    [] conn.djdt_cursor = "failure" -> CursorError("DatabaseOperationForbidden")
                    [] OTHER -> CursorError("RecursionError")
    IN  IF cursor.err # "none" THEN cursor
        ELSE IF logger = "None" THEN cursor
        ELSE PatchCursorWrapperWithMixin(cursor, Mixin(allow), logger)

\* connection.cursor(*args, **kwargs)
ConnectionCursor(conn, allow) ==
    CASE conn.cursor = "original" -> RawCursor
      [] conn.cursor = "failure" -> CursorError("DatabaseOperationForbidden")
      [] OTHER -> DjdtCursor(conn, allow)

\* The closure chunked_cursor() of wrap_cursor.  The wrapper's own
\* chunked_cursor obtains its cursor from connection.cursor(), so what it
\* returns may be instrumented already.
DjdtChunkedCursor(conn, allow) ==
    LET logger == conn.djdt_logger
        cursor == CASE conn.djdt_chunked_cursor = "original" -> ConnectionCursor(conn, allow)
                    [] conn.djdt_chunked_cursor = "failure" -> CursorError("DatabaseOperationForbidden")
                    [] OTHER -> CursorError("RecursionError")
    IN  IF cursor.err # "none" THEN cursor
        ELSE IF logger # "None" /\ cursor.mixins = <<>>
        THEN PatchCursorWrapperWithMixin(cursor, Mixin(allow), logger)
        ELSE cursor

\* connection.chunked_cursor(*args, **kwargs)
ConnectionChunkedCursor(conn, allow) ==
    CASE conn.chunked_cursor = "original" -> ConnectionCursor(conn, allow)
      [] conn.chunked_cursor = "failure" -> CursorError("DatabaseOperationForbidden")
      [] OTHER -> DjdtChunkedCursor(conn, allow)

\* wrap_cursor without the hasattr(connection, "_djdt_cursor") test.
WrapCursorEveryTime(conn) ==
    IF conn.cursor = "failure" THEN conn
    ELSE [conn EXCEPT !.djdt_cursor = conn.cursor,
                      !.djdt_chunked_cursor = conn.chunked_cursor,
                      !.djdt_logger = "None",
                      !.cursor = "djdt",
                      !.chunked_cursor = "djdt"]

\* wrap_cursor without the _DatabaseFailure test.
WrapCursorOverHarness(conn) ==
    IF conn.djdt_cursor = "absent"
    THEN [conn EXCEPT !.djdt_cursor = conn.cursor,
                      !.djdt_chunked_cursor = conn.chunked_cursor,
                      !.djdt_logger = "None",
                      !.cursor = "djdt",
                      !.chunked_cursor = "djdt"]
    ELSE conn

\* wrap_cursor(connection): the connection's attributes afterwards.
WrapCursor(conn) ==
    IF conn.cursor = "failure" THEN conn
    ELSE IF conn.djdt_cursor = "absent"
    THEN [conn EXCEPT !.djdt_cursor = conn.cursor,
                      !.djdt_chunked_cursor = conn.chunked_cursor,
                      !.djdt_logger = "None",
                      !.cursor = "djdt",
                      !.chunked_cursor = "djdt"]
    ELSE conn

\* The methods NormalCursorMixin overrides and reaches through super(): the
\* base cursor wrapper defines them as ordinary methods.
QueryMethods == {"execute", "executemany", "callproc"}
\* Every other attribute (fetchone, ...) is served by __getattr__.
Methods == QueryMethods \cup {"fetchone"}

\* The call reaches the driver.
Forward(outcome) ==
    [events |-> <<"forward">>,
     raised |-> IF outcome = "ok" THEN "none" ELSE "DriverError"]

\* _record with the recording after the call instead of in a finally clause.
_record_on_return(inner) ==
    IF inner.raised = "none"
    THEN [events |-> inner.events \o <<"record">>, raised |-> inner.raised]
    ELSE inner

\* NormalCursorMixin._record around the call it wraps: the finally clause
\* records whether the call returned or raised, and the exception propagates.
_record(inner) ==
    [events |-> inner.events \o <<"record">>, raised |-> inner.raised]

\* cursor.execute / executemany / callproc: the first class of the method
\* resolution order that defines the method runs.  ExceptionCursorMixin
\* defines only __getattr__, which Python consults only for attributes that
\* normal lookup does not find.
RECURSIVE InvokeQueryMethod(_, _)
InvokeQueryMethod(mixins, outcome) ==
    IF mixins = <<>> THEN Forward(outcome)
    ELSE IF Head(mixins) = "Normal" THEN _record(InvokeQueryMethod(Tail(mixins), outcome))
    ELSE InvokeQueryMethod(Tail(mixins), outcome)

\* getattr(cursor, method)(...) on a cursor object.
Invoke(cursor, method, outcome) ==
    IF cursor.err # "none" THEN [events |-> <<>>, raised |-> cursor.err]
    ELSE IF method \in QueryMethods THEN InvokeQueryMethod(cursor.mixins, outcome)
    ELSE IF "Exception" \in Range(cursor.mixins)
    THEN [events |-> <<>>, raised |-> "SQLQueryTriggered"]
    ELSE Forward(outcome)

Count(events, e) == Cardinality({i \in 1..Len(events) : events[i] = e})

RECURSIVE RecordTimes(_, _, _)
RecordTimes(panel, kwargs, n) ==
    IF n = 0 THEN panel ELSE RecordTimes(RecordOp(panel, kwargs), kwargs, n - 1)

\* The thread a request's synchronous work runs on: its own thread, or, for a
\* request served asynchronously, the thread sync_to_async hands the work to
\* (thread-sensitive mode: one thread for all such work).  The queries of an
\* asynchronously served request and its disable_instrumentation are taken to
\* run there too.
WorkThread(r) == IF mode[r] = "async" THEN "executor" ELSE r

\* prev: the two calls before this one, latest first.
Previous == <<lastCall.op, lastCall.prev[1]>>

CallInfo(op, r, t) ==
    [op |-> op, prev |-> Previous, by |-> r, thread |-> t]

\* wrap_cursor(connection) called on its own.
WrapCursorCall(r, alias) ==
    LET t == WorkThread(r)
    IN  /\ connection' = [connection EXCEPT ![<<t, alias>>] = WrapCursor(@)]
        /\ lastCall' = CallInfo("wrap_cursor", r, t)
        /\ UNCHANGED <<panelVars, allow_sql, mode, instrumented, driverCalls>>

\* enable_instrumentation run on thread t: connections.all() are the
\* connections of the calling thread.
EnableOn(r, t) ==
    /\ connection' = [c \in Threads \X Aliases |->
                        IF c[1] = t
                        THEN [WrapCursor(connection[c]) EXCEPT !.djdt_logger = r]
                        ELSE connection[c]]
    /\ lastCall' = CallInfo("enable", r, t)
    /\ instrumented' = [instrumented EXCEPT ![r] = TRUE]
    /\ UNCHANGED <<panelVars, allow_sql, mode, driverCalls>>

EnableInstrumentation(r) ==
    /\ mode[r] = "sync"
    /\ EnableOn(r, r)

\* await sync_to_async(self.enable_instrumentation)()
AEnableInstrumentation(r) ==
    /\ mode[r] = "async"
    /\ EnableOn(r, "executor")

DisableConnection(conn) == [conn EXCEPT !.djdt_logger = "None"]

DisableInstrumentation(r) ==
    LET t == WorkThread(r)
    IN  /\ connection' = [c \in Threads \X Aliases |->
                            IF c[1] = t THEN DisableConnection(connection[c])
                            ELSE connection[c]]
        /\ lastCall' = CallInfo("disable", r, t)
        /\ instrumented' = [instrumented EXCEPT ![r] = FALSE]
        /\ UNCHANGED <<panelVars, allow_sql, mode, driverCalls>>

\* The host sets the allow_sql context variable in the request's context.
SetAllowSql(r, b) ==
    /\ allow_sql[r] # b
    /\ allow_sql' = [allow_sql EXCEPT ![r] = b]
    /\ UNCHANGED <<panelVars, connection, mode, instrumented, driverCalls, lastCall>>

\* Request r obtains a cursor from connection.cursor() or
\* connection.chunked_cursor() and calls a method on it, in one step: the
\* logger and the mixin are those of the moment the cursor is made.  outcome
\* is what the driver does with the call, duration the time measured around
\* it, trans the transaction the connection is in.
Execute(r, alias, kind, method, sql, params, duration, outcome, trans) ==
    LET t == WorkThread(r)
        conn == connection[<<t, alias>>]
        allow == allow_sql[r]
        cursor == IF kind = "cursor" THEN ConnectionCursor(conn, allow)
                  ELSE ConnectionChunkedCursor(conn, allow)
        res == Invoke(cursor, method, outcome)
        nrec == Count(res.events, "record")
        p == cursor.logger
        kwargs == Kwargs(alias, sql, params, duration, r)
        after == RecordTimes(PanelState(p), kwargs, nrec)
    IN  /\ Len(driverCalls) < MaxCalls
        /\ IF nrec > 0
           THEN /\ queries' = [queries EXCEPT ![p] = after.queries]
                /\ databases' = [databases EXCEPT ![p] = after.databases]
                /\ sql_time' = [sql_time EXCEPT ![p] = after.sql_time]
                /\ recordCalls' = [recordCalls EXCEPT ![p] =
                                      @ \o [i \in 1..nrec |-> kwargs]]
           ELSE UNCHANGED <<queries, databases, sql_time, recordCalls>>
        /\ driverCalls' =
              IF method \in QueryMethods /\ Count(res.events, "forward") > 0
              THEN Append(driverCalls,
                          [by |-> r, trans |-> trans,
                           instrumented |-> instrumented[r],
                           recorded_in |-> IF nrec > 0
                                           THEN <<p, Len(queries[p]) + 1>>
                                           ELSE <<>>])
              ELSE driverCalls
        /\ lastCall' = [op |-> "execute", prev |-> Previous, by |-> r,
                        thread |-> t, alias |-> alias, kind |-> kind,
                        method |-> method, conn |-> conn, allow |-> allow,
                        outcome |-> outcome, duration |-> duration,
                        raised |-> res.raised, events |-> res.events]
        /\ UNCHANGED <<stats, connection, allow_sql, mode, instrumented>>

(***************************************************************************)
(* Initial state: freshly constructed panels, untouched connections.       *)
(***************************************************************************)
NoCall == [op |-> "none", prev |-> <<"none", "none">>]

FreshConnection(patched) ==
    [cursor |-> IF patched THEN "failure" ELSE "original",
     chunked_cursor |-> IF patched THEN "failure" ELSE "original",
     djdt_cursor |-> "absent",
     djdt_chunked_cursor |-> "absent",
     djdt_logger |-> "absent"]

Init ==
    /\ queries = [p \in Requests |-> <<>>]
    /\ databases = [p \in Requests |-> <<>>]
    /\ sql_time = [p \in Requests |-> 0]
    /\ stats = [p \in Requests |-> <<>>]
    /\ recordCalls = [p \in Requests |-> <<>>]
    /\ \E patched \in BOOLEAN :
          connection = [c \in Threads \X Aliases |->
                           FreshConnection(patched /\ c[2] = "replica")]
    /\ allow_sql = [r \in Requests |-> TRUE]
    /\ mode \in [Requests -> {"sync", "async"}]
    /\ instrumented = [r \in Requests |-> FALSE]
    /\ driverCalls = <<>>
    /\ lastCall = NoCall

(***************************************************************************)
(* The instrumented request cycle.                                         *)
(***************************************************************************)
Outcomes == {"ok", "error"}
Transactions == {"none", "tx1"}
CursorKinds == {"cursor", "chunked_cursor"}

\* One request and its panel, every way of using the instrumentation.
InitOne == Init /\ mode["r2"] = "sync"

Next ==
    \/ \E alias \in Aliases : WrapCursorCall("r1", alias)
    \/ EnableInstrumentation("r1")
    \/ AEnableInstrumentation("r1")
    \/ DisableInstrumentation("r1")
    \/ \E b \in BOOLEAN : SetAllowSql("r1", b)
    \/ \E alias \in Aliases, kind \in CursorKinds, method \in Methods,
          outcome \in Outcomes :
          Execute("r1", alias, kind, method, "find", PyNone, 10, outcome, "none")

Spec == InitOne /\ [][Next]_vars

\* One request whose queries run inside and outside transactions, followed to
\* the annotation pass.
NextTransactions ==
    \/ EnableInstrumentation("r1")
    \/ AEnableInstrumentation("r1")
    \/ DisableInstrumentation("r1")
    \/ \E alias \in Aliases, trans \in Transactions :
          Execute("r1", alias, "cursor", "execute", "find", PyNone, 10, "ok", trans)
    \/ GenerateStats("r1")

SpecTransactions == InitOne /\ [][NextTransactions]_vars

\* Two requests in flight at once, each with its own panel.
NextConcurrent ==
    \E r \in Requests :
        \/ EnableInstrumentation(r)
        \/ AEnableInstrumentation(r)
        \/ DisableInstrumentation(r)
        \/ Execute(r, "default", "cursor", "execute", "find", PyNone, 10, "ok", "none")

SpecConcurrent == Init /\ [][NextConcurrent]_vars

(***************************************************************************)
(* The recorder and the annotation pass on their own.                      *)
(***************************************************************************)
Durations == {0, 10, 20, 30}
SqlInputs == {"find", "aggregate"}
ParamInputs ==
    <<PyNone, PyList(<<>>), PyList(<<1>>), PyTuple(<<1>>),
      PyDict(<<Item("a", 1)>>), PyDict(<<Item("a", 2)>>)>>

InitStats ==
    /\ Init
    /\ mode = [r \in Requests |-> "sync"]
    /\ connection = [c \in Threads \X Aliases |-> FreshConnection(FALSE)]

\* record() calls that vary the alias and the duration.
NextStats ==
    \/ \E alias \in Aliases, d \in Durations :
          Record("r1", Kwargs(alias, "find", PyNone, d, "view"))
    \/ GenerateStats("r1")

SpecStats == InitStats /\ [][NextStats]_vars

\* record() calls that vary the alias, the SQL text and the parameters.
NextSimilar ==
    \/ \E alias \in Aliases, sql \in SqlInputs, i \in {1, 3} :
          Record("r1", Kwargs(alias, sql, ParamInputs[i], 10, "view"))
    \/ GenerateStats("r1")

SpecSimilar == InitStats /\ [][NextSimilar]_vars

NextDuplicate ==
    \/ \E alias \in Aliases, sql \in SqlInputs, i \in 1..Len(ParamInputs) :
          Record("r1", Kwargs(alias, sql, ParamInputs[i], 10, "view"))
    \/ GenerateStats("r1")

SpecDuplicate == InitStats /\ [][NextDuplicate]_vars

(***************************************************************************)
(* Properties of the recorder and the annotation pass.                     *)
(***************************************************************************)
KwargsFields == {"vendor", "alias", "raw_sql", "raw_params", "duration", "stacktrace"}

\* Every query of the panel went through generate_stats, and nothing was
\* recorded since.
Finalized(p) ==
    /\ stats[p] # <<>>
    /\ stats[p][1].sql_time = sql_time[p]
    /\ \A i \in 1..Len(queries[p]) : "width_ratio" \in DOMAIN queries[p][i]

Has(q, field) == field \in DOMAIN q

\* C1: after any sequence of record calls, _queries holds one entry per call
\* in call order, every alias seen has a summary whose num_queries and
\* time_spent are the count and the total duration of its queries, no other
\* alias has a summary, and _sql_time is the total of all durations.
C1_TotalsAgree ==
    \A p \in Requests :
        LET calls == recordCalls[p]
            dbs == databases[p]
            Of(alias) == {i \in 1..Len(calls) : calls[i].alias = alias}
            TimeOf(alias) ==
                SumSeq([i \in 1..Len(calls) |->
                          IF calls[i].alias = alias THEN calls[i].duration ELSE 0])
        IN  /\ Len(queries[p]) = Len(calls)
            /\ \A i \in 1..Len(calls) :
                  \A f \in KwargsFields : queries[p][i][f] = calls[i][f]
            /\ \A d, e \in 1..Len(dbs) : dbs[d].alias = dbs[e].alias => d = e
            /\ \A alias \in Aliases :
                  IF Of(alias) = {}
                  THEN alias \notin DbAliases(dbs)
                  ELSE /\ alias \in DbAliases(dbs)
                       /\ dbs[AliasIndex(dbs, alias)].num_queries = Cardinality(Of(alias))
                       /\ dbs[AliasIndex(dbs, alias)].time_spent = TimeOf(alias)
            /\ sql_time[p] = SumSeq([i \in 1..Len(calls) |-> calls[i].duration])
            /\ sql_time[p] = SumSeq([d \in 1..Len(dbs) |-> dbs[d].time_spent])

\* Three queries on "default" with durations 10, 20, 30: time_spent is 60.
C1_Witness ==
    /\ Len(recordCalls["r1"]) = 3
    /\ [i \in 1..3 |-> recordCalls["r1"][i].duration] = <<10, 20, 30>>
    /\ \A i \in 1..3 : recordCalls["r1"][i].alias = "default"
    /\ databases["r1"][1].time_spent = 60
    /\ databases["r1"][1].num_queries = 3

SameSimilarGroup(qs, i, j) ==
    \E g \in 1..Len(SimilarGroups(qs)) :
        {i, j} \subseteq Range(SimilarGroups(qs)[g].members)

SameDuplicateGroup(qs, i, j) ==
    \E g \in 1..Len(DuplicateGroups(qs)) :
        {i, j} \subseteq Range(DuplicateGroups(qs)[g].members)

\* The similar annotation of query i is that of a group of n queries.
SimilarAnnotation(qs, i, mates) ==
    IF Cardinality(mates) >= 2
    THEN /\ Has(qs[i], "similar_count") /\ Has(qs[i], "similar_color")
         /\ qs[i].similar_count = Cardinality(mates)
         /\ \A j \in mates :
               Has(qs[j], "similar_color") /\ qs[j].similar_color = qs[i].similar_color
    ELSE ~Has(qs[i], "similar_count") /\ ~Has(qs[i], "similar_color")

\* C2 as stated: all queries with identical raw SQL land in one similarity
\* group, whose members share similar_color and similar_count when there are
\* two or more, and carry neither when alone.
C2_SimilarByRawSql ==
    \A p \in Requests :
        Finalized(p) =>
            LET qs == queries[p]
                Mates(i) == {j \in 1..Len(qs) : qs[j].raw_sql = qs[i].raw_sql}
            IN  \A i \in 1..Len(qs) :
                    /\ \A j \in Mates(i) : SameSimilarGroup(qs, i, j)
                    /\ SimilarAnnotation(qs, i, Mates(i))

\* C2 amended: the similarity groups are per alias.  Queries with the same
\* alias and identical raw SQL, whatever their parameters, land in one
\* similarity group; its members share similar_color and carry similar_count
\* equal to its size when there are two or more, and carry neither annotation
\* when alone.
C2_SimilarPerAlias ==
    \A p \in Requests :
        Finalized(p) =>
            LET qs == queries[p]
                Mates(i) == {j \in 1..Len(qs) :
                                /\ qs[j].alias = qs[i].alias
                                /\ qs[j].raw_sql = qs[i].raw_sql}
            IN  \A i \in 1..Len(qs) :
                    /\ \A j \in 1..Len(qs) : j \in Mates(i) <=> SameSimilarGroup(qs, i, j)
                    /\ SimilarAnnotation(qs, i, Mates(i))

\* Two queries with the same SQL and different parameters on one alias form a
\* group of two; a third with the same SQL on another alias is alone.
C2_Witness ==
    /\ Finalized("r1")
    /\ Len(queries["r1"]) = 3
    /\ LET qs == queries["r1"]
       IN  /\ qs[1].raw_sql = qs[2].raw_sql /\ qs[2].raw_sql = qs[3].raw_sql
           /\ qs[1].alias = qs[2].alias /\ qs[3].alias # qs[1].alias
           /\ ~PyEqual(qs[1].raw_params, qs[2].raw_params)
           /\ qs[1].similar_count = 2
           /\ ~Has(qs[3], "similar_count")

\* C3 (its second half): queries whose parameters differ are never counted as
\* duplicates of each other.
C3_DifferentParamsNeverDuplicates ==
    \A p \in Requests :
        Finalized(p) =>
            LET qs == queries[p]
            IN  \A i, j \in 1..Len(qs) :
                    (i # j /\ SameDuplicateGroup(qs, i, j)
                           /\ Has(qs[i], "duplicate_count"))
                        => /\ qs[i].raw_sql = qs[j].raw_sql
                           /\ PyEqual(qs[i].raw_params, qs[j].raw_params)

\* C4: after generate_stats, when sql_time > 0 the width ratios sum to 100 up
\* to rounding, the first start_offset is 0, every end_offset is start_offset
\* plus width_ratio and the next query's start_offset, and the last end_offset
\* is 100 up to rounding; when sql_time = 0 every width_ratio, start_offset
\* and end_offset is 0.
Hundred == 100 * Precision

\* The rounding of n quotients, each cut to a multiple of 1/Precision before
\* it is multiplied by 100.
Rounding(n) == 100 * n

C4_TimelineOffsets ==
    \A p \in Requests :
        Finalized(p) /\ queries[p] # <<>> =>
            LET qs == queries[p]
                n == Len(qs)
                total == SumSeq([i \in 1..n |-> qs[i].width_ratio])
            IN  IF sql_time[p] > 0
                THEN /\ total <= Hundred /\ total >= Hundred - Rounding(n)
                     /\ qs[1].start_offset = 0
                     /\ \A i \in 1..n :
                           qs[i].end_offset = qs[i].start_offset + qs[i].width_ratio
                     /\ \A i \in 1..(n - 1) : qs[i + 1].start_offset = qs[i].end_offset
                     /\ qs[n].end_offset = total
                     /\ \A i \in 1..n :
                           /\ qs[i].width_ratio * sql_time[p] <= qs[i].duration * Hundred
                           /\ (qs[i].width_ratio + 100) * sql_time[p] > qs[i].duration * Hundred
                ELSE \A i \in 1..n :
                        /\ qs[i].width_ratio = 0
                        /\ qs[i].start_offset = 0
                        /\ qs[i].end_offset = 0

\* Durations 10, 20, 30 of a total of 60: the shares are rounded.
C4_Witness ==
    /\ Finalized("r1")
    /\ sql_time["r1"] = 60
    /\ Len(queries["r1"]) = 3
    /\ [i \in 1..3 |-> queries["r1"][i].duration] = <<10, 20, 30>>
    /\ queries["r1"][3].end_offset # Hundred
    /\ queries["r1"][3].end_offset >= Hundred - Rounding(3)

(***************************************************************************)
(* Properties of the cursor instrumentation.                               *)
(***************************************************************************)
QueryCallOnWrapped ==
    /\ lastCall.op = "execute"
    /\ lastCall.method \in QueryMethods
    /\ lastCall.conn.djdt_cursor # "absent"

Enabled(conn) == conn.djdt_logger \in Requests

SavedOriginals ==
    \A c \in Threads \X Aliases :
        connection[c].djdt_cursor # "absent" =>
            /\ connection[c].djdt_cursor = "original"
            /\ connection[c].djdt_chunked_cursor = "original"

\* The cursors a wrapped connection hands out carry one layer of
\* instrumentation while a logger is set and none otherwise.
OneLayer ==
    \A c \in Threads \X Aliases, allow \in BOOLEAN :
        connection[c].djdt_cursor # "absent" =>
            LET layers == IF Enabled(connection[c]) THEN <<Mixin(allow)>> ELSE <<>>
            IN  /\ connection[c].cursor = "djdt"
                /\ connection[c].chunked_cursor = "djdt"
                /\ ConnectionCursor(connection[c], allow).err = "none"
                /\ ConnectionCursor(connection[c], allow).mixins = layers
                /\ ConnectionChunkedCursor(connection[c], allow).err = "none"
                /\ ConnectionChunkedCursor(connection[c], allow).mixins = layers

\* C5 as stated: after one or more wrap_cursor / enable_instrumentation calls
\* on a connection, in any order with disable_instrumentation calls, the saved
\* factories are the originals, there is one layer of instrumentation, and each
\* execute / executemany / callproc on a cursor of the connection produces
\* exactly one record call.
C5_ExactlyOneRecordOnceWrapped ==
    /\ SavedOriginals
    /\ QueryCallOnWrapped => Count(lastCall.events, "record") = 1

\* enable_instrumentation wraps every connection of its thread that the test
\* harness has not patched.
EnableWraps ==
    lastCall.op = "enable" =>
        \A a \in Aliases :
            LET conn == connection[<<lastCall.thread, a>>]
            IN  ~(conn.cursor = "failure") =>
                    conn.djdt_cursor = "original" /\ Enabled(conn)

\* C5 amended: on a connection that is not patched by the test harness, after
\* one or more wrap_cursor / enable_instrumentation calls in any order with
\* disable_instrumentation calls, the saved factories are the originals, the
\* cursors handed out carry at most one layer of instrumentation, and each
\* execute / executemany / callproc produces exactly one record call on a
\* cursor obtained while a panel was the connection's logger and allow_sql
\* was true, and none on a cursor obtained otherwise (never two).
C5_WrapIdempotent ==
    /\ SavedOriginals
    /\ EnableWraps
    /\ OneLayer
    /\ QueryCallOnWrapped =>
          Count(lastCall.events, "record") =
              IF Enabled(lastCall.conn) /\ lastCall.allow THEN 1 ELSE 0

\* A query through chunked_cursor() right after the second of two enable
\* calls is recorded once.
C5_Witness ==
    /\ QueryCallOnWrapped
    /\ lastCall.kind = "chunked_cursor"
    /\ lastCall.prev = <<"enable", "enable">>
    /\ Enabled(lastCall.conn) /\ lastCall.allow
    /\ Count(lastCall.events, "record") = 1
    /\ Len(queries[lastCall.conn.djdt_logger]) = 1

\* C6: with instrumentation enabled, in blocking mode (allow_sql false) an
\* execute, executemany or callproc raises SQLQueryTriggered without reaching
\* the driver or recording; in normal mode the call is forwarded and recorded.
C6_BlockingModeRaises ==
    (QueryCallOnWrapped /\ Enabled(lastCall.conn)) =>
        IF lastCall.allow
        THEN lastCall.events = <<"forward", "record">>
        ELSE lastCall.raised = "SQLQueryTriggered" /\ lastCall.events = <<>>

Harness(conn) == conn.cursor = "failure"

\* C7: a second disable_instrumentation leaves every connection as the first
\* left it (logger cleared, cursors handed out unwrapped), and on a connection
\* whose cursor is a test-harness patch no enable / disable call changes
\* cursor or chunked_cursor or saves the originals.
C7_TeardownIdempotent ==
    /\ [](lastCall.op = "disable" =>
            \A a \in Aliases :
                LET conn == connection[<<lastCall.thread, a>>]
                IN  /\ conn.djdt_logger = "None"
                    /\ ~Harness(conn) =>
                          \A allow \in BOOLEAN :
                              /\ ConnectionCursor(conn, allow) = RawCursor
                              /\ ConnectionChunkedCursor(conn, allow) = RawCursor)
    /\ [][(/\ lastCall'.op = "disable" /\ lastCall.op = "disable"
           /\ lastCall'.thread = lastCall.thread)
              => connection' = connection]_vars
    /\ [][\A c \in Threads \X Aliases :
            Harness(connection[c]) =>
                /\ connection'[c].cursor = connection[c].cursor
                /\ connection'[c].chunked_cursor = connection[c].chunked_cursor
                /\ connection'[c].djdt_cursor = "absent"
                /\ connection'[c].djdt_chunked_cursor = "absent"]_vars

\* disable after disable after enable, with a harness-patched connection on
\* the thread.
C7_Witness ==
    /\ lastCall.op = "disable"
    /\ lastCall.prev = <<"disable", "enable">>
    /\ Harness(connection[<<lastCall.thread, "replica">>])
    /\ connection[<<lastCall.thread, "replica">>].djdt_logger = "None"
    /\ connection[<<lastCall.thread, "default">>].cursor = "djdt"

\* C8: generate_stats marks the transaction boundaries: a recorded query that
\* ran inside a transaction carries in_trans, and starts_trans when the
\* previous query of its alias was not in that transaction.
C8_TransactionBoundariesMarked ==
    \A k \in 1..Len(driverCalls) :
        LET call == driverCalls[k]
        IN  (call.recorded_in # <<>> /\ call.trans # "none") =>
                LET p == call.recorded_in[1]
                    q == queries[p][call.recorded_in[2]]
                IN  Finalized(p) =>
                        \/ Has(q, "in_trans")
                        \/ Has(q, "starts_trans")
                        \/ Has(q, "ends_trans")

\* C9 (its first clause): every query that a request executes between its
\* own enable and its own disable is recorded in that request's panel.
C9_RecordedInOwnPanel ==
    \A k \in 1..Len(driverCalls) :
        driverCalls[k].instrumented =>
            /\ driverCalls[k].recorded_in # <<>>
            /\ driverCalls[k].recorded_in[1] = driverCalls[k].by

\* C10: with instrumentation enabled in normal mode, an execute, executemany
\* or callproc reaches the driver once and is recorded once, after the call
\* and with its duration, whether the driver returns or raises; the driver's
\* exception propagates.
C10_RecordedWhetherOrNotDriverRaises ==
    (QueryCallOnWrapped /\ Enabled(lastCall.conn) /\ lastCall.allow) =>
        LET calls == recordCalls[lastCall.conn.djdt_logger]
        IN  /\ lastCall.events = <<"forward", "record">>
            /\ lastCall.raised = IF lastCall.outcome = "ok" THEN "none" ELSE "DriverError"
            /\ calls # <<>>
            /\ calls[Len(calls)].duration = lastCall.duration
            /\ calls[Len(calls)].alias = lastCall.alias

\* The driver raised, and the query is recorded all the same.
C10_Witness ==
    /\ QueryCallOnWrapped /\ Enabled(lastCall.conn) /\ lastCall.allow
    /\ lastCall.outcome = "error"
    /\ lastCall.raised = "DriverError"
    /\ Len(queries[lastCall.conn.djdt_logger]) = 2

====
